---- MODULE Spec2Model ----
(***************************************************************************)
(* The CSV export pipeline of colombia/downloads.py: the classification    *)
(* registry, merge_classifications, the eight assemblers and the           *)
(* downloads() driver.  Tables are data frames: a sequence of column       *)
(* labels, a sequence of rows (functions from column label to value) and   *)
(* the row labels (the frame's index).  Every value is an integer; Null    *)
(* stands for the missing value a left or outer join fills in.             *)
(***************************************************************************)
EXTENDS Integers, Sequences, FiniteSets, TLC

\* Most rows a fetched panel, or a table handed to merge_classifications, has.
MaxRows == 2

\* The missing value (NaN) of a join's unmatched side.
Null == -1

Locations == {1, 2}
Products == {1, 2}
Industries == {1, 2}
Occupations == {1, 2}
Years == {1, 2}

Range(s) == {s[i] : i \in DOMAIN s}

RangeIndex(n) == [i \in 1..n |-> i - 1]

\* Ascending order of values with the missing value last (na_position="last").
ValueLess(a, b) == IF a = Null THEN FALSE ELSE IF b = Null THEN TRUE ELSE a < b

\* Lexicographic order of two rows on the columns `by`, from position i on.
RECURSIVE KeyLessFrom(_, _, _, _)
KeyLessFrom(r, s, by, i) ==
    IF i > Len(by) THEN FALSE
    ELSE IF ValueLess(r[by[i]], s[by[i]]) THEN TRUE
    ELSE IF ValueLess(s[by[i]], r[by[i]]) THEN FALSE
    ELSE KeyLessFrom(r, s, by, i + 1)

KeyLess(r, s, by) == KeyLessFrom(r, s, by, 1)

\* The stable ascending order of rows[1..n] on `by`, as a sequence of positions.
RECURSIVE SortPerm(_, _, _)
SortPerm(rows, by, n) ==
    IF n = 0 THEN << >>
    ELSE LET p == SortPerm(rows, by, n - 1)
             k == Cardinality({j \in DOMAIN p : ~KeyLess(rows[n], rows[p[j]], by)})
         IN  SubSeq(p, 1, k) \o <<n>> \o SubSeq(p, k + 1, Len(p))

\* DataFrame.sort_values(by=...): the rows reordered, each keeping its row label.
sort_values(df, by) ==
    LET p == SortPerm(df.rows, by, Len(df.rows))
    IN  [cols |-> df.cols,
         rows |-> [i \in DOMAIN p |-> df.rows[p[i]]],
         index |-> [i \in DOMAIN p |-> df.index[p[i]]]]

\* DataFrame.reset_index(drop=True): the row labels renumbered 0..n-1.
reset_index_drop(df) ==
    [cols |-> df.cols, rows |-> df.rows, index |-> RangeIndex(Len(df.rows))]

\* A panel is a frame indexed by its dimension keys (levels).
\* Panel.reset_index(): the index levels become the leading columns.
reset_index(p) ==
    [cols |-> p.levels \o p.cols, rows |-> p.rows,
     index |-> RangeIndex(Len(p.rows))]

\* panel[[c1, ...]]: the value columns cs alone, the index kept.
select(p, cs) ==
    [levels |-> p.levels, cols |-> cs,
     rows |-> [i \in DOMAIN p.rows |->
                 [c \in Range(p.levels) \cup Range(cs) |-> p.rows[i][c]]]]

\* The columns of `cols` that are not among `drop`, in order.
Without(cols, drop) == SelectSeq(cols, LAMBDA c : c \notin drop)

\* A label of the left (right) frame in a merge's result: a value column both
\* frames have gets the suffix _x (_y).
Suffixed(c, overlap, suffix) == IF c \in overlap THEN c \o suffix ELSE c

Overlap(left, right, on) ==
    (Range(left.cols) \cap Range(right.cols)) \ Range(on)

\* The result row of a merge from left row l and right row r; `hasL`, `hasR`
\* say which side exists, the other side's value columns are Null.  lc: the
\* left frame's columns, rc: the right frame's columns but the keys, ov: the
\* value columns both frames have, keys: the columns joined on.
MergedRow(lc, rc, ov, keys, l, r, hasL, hasR) ==
    LET lval(c) == IF hasL THEN l[c] ELSE IF c \in keys THEN r[c] ELSE Null
        rval(c) == IF hasR THEN r[c] ELSE Null
    IN  IF ov = {}
        THEN [d \in lc \cup rc |-> IF d \in lc THEN lval(d) ELSE rval(d)]
        ELSE LET lout == {Suffixed(c, ov, "_x") : c \in lc}
                 rout == {Suffixed(c, ov, "_y") : c \in rc}
             IN  [d \in lout \cup rout |->
                    IF d \in lout
                    THEN lval(CHOOSE c \in lc : Suffixed(c, ov, "_x") = d)
                    ELSE rval(CHOOSE c \in rc : Suffixed(c, ov, "_y") = d)]

Matches(l, r, on) == \A i \in DOMAIN on : l[on[i]] = r[on[i]]

\* The rows that left rows i.. contribute: one per matching right row, in the
\* right frame's order; an unmatched left row is kept when keepLeft.
RECURSIVE LeftRows(_, _, _, _, _, _, _, _)
LeftRows(left, right, on, lc, rc, ov, keepLeft, i) ==
    IF i > Len(left.rows) THEN << >>
    ELSE LET l == left.rows[i]
             ms == SelectSeq(right.rows, LAMBDA r : Matches(l, r, on))
             here == IF ms = << >>
                     THEN IF keepLeft
                          THEN << MergedRow(lc, rc, ov, Range(on), l, l, TRUE, FALSE) >>
                          ELSE << >>
                     ELSE [j \in DOMAIN ms |->
                             MergedRow(lc, rc, ov, Range(on), l, ms[j], TRUE, TRUE)]
         IN  here \o LeftRows(left, right, on, lc, rc, ov, keepLeft, i + 1)

\* The rows of the right frame no left row matches, in the right frame's order.
RightOnlyRows(left, right, on, lc, rc, ov) ==
    LET rs == SelectSeq(right.rows,
                  LAMBDA r : \A i \in DOMAIN left.rows : ~Matches(left.rows[i], r, on))
    IN  [j \in DOMAIN rs |->
           MergedRow(lc, rc, ov, Range(on), rs[j], rs[j], FALSE, TRUE)]

\* DataFrame.merge(right, on=on, how=how).  The result has fresh row labels.
\* An outer join's rows come in key order when the library sorts the keys
\* (sortKeys), otherwise left rows first and the right-only rows after them.
merge(left, right, on, how, sortKeys) ==
    LET ov == Overlap(left, right, on)
        lc == Range(left.cols)
        rcols == Without(right.cols, Range(on))
        rc == Range(rcols)
        cols == [i \in DOMAIN left.cols |-> Suffixed(left.cols[i], ov, "_x")]
                \o [i \in DOMAIN rcols |-> Suffixed(rcols[i], ov, "_y")]
        lrows == LeftRows(left, right, on, lc, rc, ov, how \in {"left", "outer"}, 1)
        rows == IF how = "outer"
                THEN lrows \o RightOnlyRows(left, right, on, lc, rc, ov)
                ELSE lrows
        t == [cols |-> cols, rows |-> rows, index |-> RangeIndex(Len(rows))]
    IN  IF how = "outer" /\ sortKeys
        THEN reset_index_drop(sort_values(t, on))
        ELSE t

\* Panel.join(other): a left join on the shared index; the index is kept.
join(p, q) ==
    LET m == merge(reset_index(p), reset_index(q), p.levels, "left", FALSE)
    IN  [levels |-> p.levels, cols |-> Without(m.cols, Range(p.levels)),
         rows |-> m.rows]


(***************************************************************************)
(* The classification datasets and the registry.                           *)
(***************************************************************************)

\* A classification table: one row per classified id, with its display name.
ClassificationTable(ids, base) ==
    LET kept == SelectSeq(<<1, 2, 3>>, LAMBDA i : i \in ids)
    IN  [cols |-> <<"id", "name">>,
         rows |-> [j \in DOMAIN kept |-> [id |-> kept[j], name |-> base + kept[j]]],
         index |-> RangeIndex(Len(kept))]

\* Each table classifies one of the two ids the panels use, and an id (3) no
\* panel uses; the other panel id has no entry.
occupation_classification == ClassificationTable({2, 3}, 400)
location_classification == ClassificationTable({1, 3}, 100)
product_classification == ClassificationTable({2, 3}, 200)
industry_classification == ClassificationTable({1, 3}, 300)

\* Mutation: the product entry copied from the location entry with its name
\* left unchanged, so that two entries label their columns alike.
classifications_same_name ==
    [occupation_id |-> [name |-> "occupation",
                        classification |-> occupation_classification],
     location_id |-> [name |-> "location",
                      classification |-> location_classification],
     product_id |-> [name |-> "location",
                     classification |-> product_classification],
     industry_id |-> [name |-> "industry",
                      classification |-> industry_classification]]

\* The registry: id column -> the entity's name and classification table.
classifications ==
    [occupation_id |-> [name |-> "occupation",
                        classification |-> occupation_classification],
     location_id |-> [name |-> "location",
                      classification |-> location_classification],
     product_id |-> [name |-> "product",
                     classification |-> product_classification],
     industry_id |-> [name |-> "industry",
                      classification |-> industry_classification]]

\* The registry's keys as the dict literal lists them.
ItemsDeclared == <<"occupation_id", "location_id", "product_id", "industry_id">>

\* classifications.items() yields the entries in an order the interpreter
\* chooses (hash order, or the literal's order): any permutation of the keys.
Orders ==
    {o \in [1..Len(ItemsDeclared) -> Range(ItemsDeclared)] :
        \A i, j \in DOMAIN o : i # j => o[i] # o[j]}

\* The exception a join on a column the frame lacks raises.
KeyError == [cols |-> << >>, rows |-> << >>, index |-> << >>, exc |-> "KeyError"]

IsError(df) == "exc" \in DOMAIN df

\* merge_classification_by_id(df, classification, col, name): a left join of
\* df with the classification table on df[col] = id, the table's descriptive
\* column labelled <name>_name.
merge_classification_by_id(df, classification, col, name) ==
    IF col \notin Range(df.cols) THEN KeyError
    ELSE LET label == name \o "_name"
             table == [cols |-> <<col, label>>,
                       rows |-> [i \in DOMAIN classification.rows |->
                                   (col :> classification.rows[i].id)
                                   @@ (label :> classification.rows[i].name)],
                       index |-> classification.index]
         IN  merge(df, table, <<col>>, "left", FALSE)

\* The loop of merge_classifications from entry i of the iteration order on.
RECURSIVE merge_classifications_from(_, _, _)
merge_classifications_from(items, df, i) ==
    IF i > Len(items) THEN df
    ELSE LET col == items[i]
             settings == classifications[col]
         IN  merge_classifications_from(items,
                 IF col \in Range(df.cols)
                 THEN merge_classification_by_id(df, settings.classification,
                                                 col, settings.name)
                 ELSE df,
                 i + 1)

\* Mutation: the return statement indented into the loop body, so that the
\* function returns after the first registry entry whose column is present.
RECURSIVE merge_classifications_return_in_loop_from(_, _, _)
merge_classifications_return_in_loop_from(items, df, i) ==
    IF i > Len(items) THEN df
    ELSE LET col == items[i]
             settings == classifications[col]
         IN  IF col \in Range(df.cols)
             THEN merge_classification_by_id(df, settings.classification,
                                             col, settings.name)
             ELSE merge_classifications_return_in_loop_from(items, df, i + 1)

merge_classifications_return_in_loop(items, df) ==
    merge_classifications_return_in_loop_from(items, df, 1)

\* Mutation: the column-presence test dropped; the first join on an absent
\* column raises and the exception leaves the function.
RECURSIVE merge_classifications_no_guard_from(_, _, _)
merge_classifications_no_guard_from(items, df, i) ==
    IF i > Len(items) \/ IsError(df) THEN df
    ELSE LET col == items[i]
             settings == classifications[col]
         IN  merge_classifications_no_guard_from(items,
                 merge_classification_by_id(df, settings.classification,
                                            col, settings.name),
                 i + 1)

merge_classifications_no_guard(items, df) ==
    merge_classifications_no_guard_from(items, df, 1)

\* merge_classifications(df), with the registry iterated in the order `items`.
merge_classifications(items, df) == merge_classifications_from(items, df, 1)

\* One iteration order for each relative order of the registry columns a table
\* with the columns `present` has: the present columns first, the absent ones
\* (which the loop skips) after them in the literal's order.
OrdersFor(present) ==
    LET absent(c) == c \notin present
        n == Cardinality(present \cap Range(ItemsDeclared))
    IN  {o \in Orders :
            /\ \A i \in 1..n : o[i] \in present
            /\ SelectSeq(o, absent) = SelectSeq(ItemsDeclared, absent)}

(***************************************************************************)
(* The datasets process_dataset returns: for each facet (a tuple of         *)
(* dimension keys) a panel indexed by it, its key tuples unique and in key  *)
(* order.  A value is its column's base plus the code of the row's key, so  *)
(* that no two cells of a dataset agree by accident.                        *)
(***************************************************************************)
LPY == <<"location_id", "product_id", "year">>
PY == <<"product_id", "year">>
LY == <<"location_id", "year">>
LIY == <<"location_id", "industry_id", "year">>
IY == <<"industry_id", "year">>
OI == <<"occupation_id", "industry_id">>

Universe ==
    [location_id |-> Locations, product_id |-> Products,
     industry_id |-> Industries, occupation_id |-> Occupations, year |-> Years]

ColumnBase ==
    [export_value |-> 1000, pci |-> 2000, pci_rank |-> 3000, eci |-> 4000,
     eci_rank |-> 5000, employment |-> 6000, complexity |-> 7000,
     complexity_rank |-> 8000, num_vacancies |-> 9000, gdp_real |-> 10000,
     gdp_nominal |-> 11000, population |-> 12000]

RECURSIVE KeyCode(_)
KeyCode(k) ==
    IF k = << >> THEN 0 ELSE 10 * KeyCode(SubSeq(k, 1, Len(k) - 1)) + k[Len(k)]

CellValue(col, k) == ColumnBase[col] + KeyCode(k)

KeyTuples(levels) ==
    {k \in [DOMAIN levels -> UNION {Universe[c] : c \in DOMAIN Universe}] :
        \A i \in DOMAIN levels : k[i] \in Universe[levels[i]]}

KeyOf(row, levels) == [i \in DOMAIN levels |-> row[levels[i]]]

RECURSIVE SetToSeq(_)
SetToSeq(S) ==
    IF S = {} THEN << >>
    ELSE LET x == CHOOSE x \in S : TRUE IN <<x>> \o SetToSeq(S \ {x})

\* The panel with the key tuples K.
Panel(levels, cols, K) ==
    LET raw == SetToSeq({ [c \in Range(levels) \cup Range(cols) |->
                             IF c \in Range(levels)
                             THEN k[CHOOSE i \in DOMAIN levels : levels[i] = c]
                             ELSE CellValue(c, k)] : k \in K })
        p == SortPerm(raw, levels, Len(raw))
    IN  [levels |-> levels, cols |-> cols, rows |-> [i \in DOMAIN p |-> raw[p[i]]]]

Panels(levels, cols) ==
    {Panel(levels, cols, K) :
        K \in {K \in SUBSET KeyTuples(levels) : Cardinality(K) <= MaxRows}}

\* What process_dataset returns for a trade dataset, an industry dataset, ...:
\* the facets by their key tuple.
TradeDataset(d, s, t) == (LPY :> d) @@ (PY :> s) @@ (LY :> t)
IndustryDataset(d, s) == (LIY :> d) @@ (IY :> s)
\* The municipality datasets: the detail facet, the only one their assemblers read.
TradeMunicipalityDataset(d) == (LPY :> d)
IndustryMunicipalityDataset(d) == (LIY :> d)
OccupationDataset(d) == (OI :> d)
LocationYearDataset(d) == (LY :> d)

(***************************************************************************)
(* The assemblers.  `ret` is what process_dataset returned, `items` the     *)
(* registry's iteration order in the call of merge_classifications.         *)
(***************************************************************************)
\* Mutation: the location-year summary joined on the location alone.
save_products_department_location_only(ret, items) ==
    LET dpy == reset_index(ret[LPY])
        py == reset_index(select(ret[PY], <<"pci">>))
        dy == reset_index(select(ret[LY], <<"eci">>))
        m1 == merge(dpy, py, <<"product_id", "year">>, "inner", FALSE)
        m2 == merge(m1, dy, <<"location_id">>, "inner", FALSE)
    IN  merge_classifications(items, m2)

save_products_department(ret, items) ==
    LET dpy == reset_index(ret[LPY])
        py == reset_index(select(ret[PY], <<"pci">>))
        dy == reset_index(select(ret[LY], <<"eci">>))
        m1 == merge(dpy, py, <<"product_id", "year">>, "inner", FALSE)
        m2 == merge(m1, dy, <<"location_id", "year">>, "inner", FALSE)
    IN  merge_classifications(items, m2)

save_products_msa(ret, items) ==
    LET df0 == reset_index(ret[LPY])
        py == reset_index(select(ret[PY], <<"pci">>))
        dy == reset_index(select(ret[LY], <<"eci">>))
        df1 == merge(df0, py, <<"product_id", "year">>, "inner", FALSE)
        df2 == merge(df1, dy, <<"location_id", "year">>, "inner", FALSE)
    IN  merge_classifications(items, df2)

save_products_muni(ret, items) ==
    merge_classifications(items, reset_index(ret[LPY]))

\* Mutation: the summary joined with how="left".
save_industries_department_left_join(ret, items) ==
    LET dpy == reset_index(ret[LIY])
        py == reset_index(select(ret[IY], <<"complexity">>))
        m == merge(dpy, py, <<"industry_id", "year">>, "left", FALSE)
    IN  merge_classifications(items, m)

save_industries_department(ret, items) ==
    LET dpy == reset_index(ret[LIY])
        py == reset_index(select(ret[IY], <<"complexity">>))
        m == merge(dpy, py, <<"industry_id", "year">>, "inner", FALSE)
    IN  merge_classifications(items, m)

\* Mutation: the industry-year summary joined on the industry alone.
save_industries_msa_industry_only(ret, items) ==
    LET dpy == reset_index(ret[LIY])
        py == reset_index(select(ret[IY], <<"complexity">>))
        m == merge(dpy, py, <<"industry_id">>, "inner", FALSE)
    IN  merge_classifications(items, m)

save_industries_msa(ret, items) ==
    LET dpy == reset_index(ret[LIY])
        py == reset_index(select(ret[IY], <<"complexity">>))
        m == merge(dpy, py, <<"industry_id", "year">>, "inner", FALSE)
    IN  merge_classifications(items, m)

save_industries_municipality(ret, items) ==
    merge_classifications(items, reset_index(ret[LIY]))

save_occupations(ret, items) ==
    merge_classifications(items, reset_index(ret[OI]))


\* Mutation: the GDP panels joined the other way round.
save_demographic_nominal_first(real, nominal, pop, items, sortKeys) ==
    LET gdp_df == reset_index(join(nominal[LY], real[LY]))
        pop_df == reset_index(pop[LY])
        m == merge(gdp_df, pop_df, LY, "outer", sortKeys)
    IN  reset_index_drop(sort_values(merge_classifications(items, m), LY))

\* Mutation: the population panel merged with the default (inner) join.
save_demographic_inner(real, nominal, pop, items, sortKeys) ==
    LET gdp_df == reset_index(join(real[LY], nominal[LY]))
        pop_df == reset_index(pop[LY])
        m == merge(gdp_df, pop_df, LY, "inner", sortKeys)
    IN  reset_index_drop(sort_values(merge_classifications(items, m), LY))

\* Mutation: the final sort_values left out.
save_demographic_unsorted(real, nominal, pop, items, sortKeys) ==
    LET gdp_df == reset_index(join(real[LY], nominal[LY]))
        pop_df == reset_index(pop[LY])
        m == merge(gdp_df, pop_df, LY, "outer", sortKeys)
    IN  reset_index_drop(merge_classifications(items, m))

\* `real`, `nominal`, `pop`: what the three process_dataset calls returned;
\* sortKeys: whether the library's outer join sorts the keys.
save_demographic(real, nominal, pop, items, sortKeys) ==
    LET gdp_df == reset_index(join(real[LY], nominal[LY]))
        pop_df == reset_index(pop[LY])
        m == merge(gdp_df, pop_df, LY, "outer", sortKeys)
    IN  reset_index_drop(sort_values(merge_classifications(items, m), LY))

(***************************************************************************)
(* downloads(): the eight save(...) statements.                             *)
(***************************************************************************)
\* Mutation: the industry statements moved before the product statements.
ExportsIndustriesFirst ==
    << [assembler |-> "save_industries_department", name |-> "industries_department.csv"],
       [assembler |-> "save_industries_msa", name |-> "industries_msa.csv"],
       [assembler |-> "save_industries_municipality", name |-> "industries_municipality.csv"],
       [assembler |-> "save_products_department", name |-> "products_department.csv"],
       [assembler |-> "save_products_msa", name |-> "products_msa.csv"],
       [assembler |-> "save_products_muni", name |-> "products_municipality.csv"],
       [assembler |-> "save_occupations", name |-> "occupations.csv"],
       [assembler |-> "save_demographic", name |-> "demographic.csv"] >>

Exports ==
    << [assembler |-> "save_products_department", name |-> "products_department.csv"],
       [assembler |-> "save_products_msa", name |-> "products_msa.csv"],
       [assembler |-> "save_products_muni", name |-> "products_municipality.csv"],
       [assembler |-> "save_industries_department", name |-> "industries_department.csv"],
       [assembler |-> "save_industries_msa", name |-> "industries_msa.csv"],
       [assembler |-> "save_industries_municipality", name |-> "industries_municipality.csv"],
       [assembler |-> "save_occupations", name |-> "occupations.csv"],
       [assembler |-> "save_demographic", name |-> "demographic.csv"] >>

(***************************************************************************)
(* State.                                                                  *)
(***************************************************************************)
VARIABLES
    pc,       \* downloads(): the save(...) statement being executed, 1..8
    phase,    \* "call": its assembler is to be called; "save": the assembler
              \* has returned and to_csv is to be called; "done"; "aborted"
    called,   \* the assemblers called so far, in order
    written,  \* the files to_csv has written in full, in order
    touched,  \* the files to_csv has created, in full or in part
    fetched,  \* what process_dataset returned to the assembler, by dataset
    df,       \* the table the assembler returned, the argument of save
    arg,      \* the table merge_classifications is called with on its own
    out,      \* what that call returned
    mpc       \* that call's position: "idle", "start" or "returned"

vars == <<pc, phase, called, written, touched, fetched, df, arg, out, mpc>>

EmptyTable == [cols |-> << >>, rows |-> << >>, index |-> << >>]

NoDatasets == [d \in {} |-> {}]

Init ==
    /\ pc = 1
    /\ phase = "call"
    /\ called = << >>
    /\ written = << >>
    /\ touched = {}
    /\ fetched = NoDatasets
    /\ df = EmptyTable
    /\ arg = EmptyTable
    /\ out = EmptyTable
    /\ mpc = "idle"

AtCall(assembler) ==
    /\ phase = "call"
    /\ pc \in DOMAIN Exports
    /\ Exports[pc].assembler = assembler

\* The assembler returns `table`, computed from the datasets `data`.
Returns(assembler, data, table) ==
    /\ called' = Append(called, assembler)
    /\ fetched' = data
    /\ df' = table
    /\ phase' = "save"
    /\ UNCHANGED <<pc, written, touched, arg, out, mpc>>

SaveProductsDepartment ==
    /\ AtCall("save_products_department")
    /\ \E d \in Panels(LPY, <<"export_value">>), s \in Panels(PY, <<"pci", "pci_rank">>),
          t \in Panels(LY, <<"eci", "eci_rank">>),
          items \in OrdersFor({"location_id", "product_id"}) :
          LET ret == TradeDataset(d, s, t)
          IN  Returns("save_products_department", ("trade4digit_department" :> ret),
                      save_products_department(ret, items))

SaveProductsMsa ==
    /\ AtCall("save_products_msa")
    /\ \E d \in Panels(LPY, <<"export_value">>), s \in Panels(PY, <<"pci", "pci_rank">>),
          t \in Panels(LY, <<"eci", "eci_rank">>),
          items \in OrdersFor({"location_id", "product_id"}) :
          LET ret == TradeDataset(d, s, t)
          IN  Returns("save_products_msa", ("trade4digit_msa" :> ret),
                      save_products_msa(ret, items))

SaveProductsMuni ==
    /\ AtCall("save_products_muni")
    /\ \E d \in Panels(LPY, <<"export_value">>),
          items \in OrdersFor({"location_id", "product_id"}) :
          LET ret == TradeMunicipalityDataset(d)
          IN  Returns("save_products_muni", ("trade4digit_municipality" :> ret),
                      save_products_muni(ret, items))

SaveIndustriesDepartment ==
    /\ AtCall("save_industries_department")
    /\ \E d \in Panels(LIY, <<"employment">>),
          s \in Panels(IY, <<"complexity", "complexity_rank">>),
          items \in OrdersFor({"location_id", "industry_id"}) :
          LET ret == IndustryDataset(d, s)
          IN  Returns("save_industries_department", ("industry4digit_department" :> ret),
                      save_industries_department(ret, items))

SaveIndustriesMsa ==
    /\ AtCall("save_industries_msa")
    /\ \E d \in Panels(LIY, <<"employment">>),
          s \in Panels(IY, <<"complexity", "complexity_rank">>),
          items \in OrdersFor({"location_id", "industry_id"}) :
          LET ret == IndustryDataset(d, s)
          IN  Returns("save_industries_msa", ("industry4digit_msa" :> ret),
                      save_industries_msa(ret, items))

SaveIndustriesMunicipality ==
    /\ AtCall("save_industries_municipality")
    /\ \E d \in Panels(LIY, <<"employment">>),
          items \in OrdersFor({"location_id", "industry_id"}) :
          LET ret == IndustryMunicipalityDataset(d)
          IN  Returns("save_industries_municipality",
                      ("industry4digit_municipality" :> ret),
                      save_industries_municipality(ret, items))

SaveOccupations ==
    /\ AtCall("save_occupations")
    /\ \E d \in Panels(OI, <<"num_vacancies">>),
          items \in OrdersFor({"occupation_id", "industry_id"}) :
          LET ret == OccupationDataset(d)
          IN  Returns("save_occupations", ("occupation2digit_industry2digit" :> ret),
                      save_occupations(ret, items))

SaveDemographic ==
    /\ AtCall("save_demographic")
    /\ \E r \in Panels(LY, <<"gdp_real">>), n \in Panels(LY, <<"gdp_nominal">>),
          p \in Panels(LY, <<"population">>), items \in OrdersFor({"location_id"}),
          sortKeys \in BOOLEAN :
          LET real == LocationYearDataset(r)
              nominal == LocationYearDataset(n)
              pop == LocationYearDataset(p)
          IN  Returns("save_demographic",
                      ("gdp_real_department" :> real)
                         @@ ("gdp_nominal_department" :> nominal)
                         @@ ("population" :> pop),
                      save_demographic(real, nominal, pop, items, sortKeys))

\* An exception inside the assembler (process_dataset or a join raises): it
\* leaves downloads(), nothing catches it.
AssemblerRaises ==
    /\ phase = "call"
    /\ pc \in DOMAIN Exports
    /\ called' = Append(called, Exports[pc].assembler)
    /\ phase' = "aborted"
    /\ UNCHANGED <<pc, written, touched, fetched, df, arg, out, mpc>>

\* save(df, name): df.to_csv(path + name) returns.
ToCsv ==
    /\ phase = "save"
    /\ written' = Append(written, Exports[pc].name)
    /\ touched' = touched \cup {Exports[pc].name}
    /\ pc' = pc + 1
    /\ phase' = IF pc = Len(Exports) THEN "done" ELSE "call"
    /\ fetched' = NoDatasets
    /\ df' = EmptyTable
    /\ UNCHANGED <<called, arg, out, mpc>>

\* to_csv raises, before or after it created the file.
ToCsvRaises ==
    /\ phase = "save"
    /\ \E created \in BOOLEAN :
          touched' = IF created THEN touched \cup {Exports[pc].name} ELSE touched
    /\ phase' = "aborted"
    /\ fetched' = NoDatasets
    /\ df' = EmptyTable
    /\ UNCHANGED <<pc, called, written, arg, out, mpc>>

Next ==
    \/ SaveProductsDepartment
    \/ SaveProductsMsa
    \/ SaveProductsMuni
    \/ SaveIndustriesDepartment
    \/ SaveIndustriesMsa
    \/ SaveIndustriesMunicipality
    \/ SaveOccupations
    \/ SaveDemographic
    \/ AssemblerRaises
    \/ ToCsv
    \/ ToCsvRaises

Spec == Init /\ [][Next]_vars

(***************************************************************************)
(* merge_classifications on its own, on any table.                          *)
(***************************************************************************)
\* The table with the registry columns S and a value column whose rows' ids
\* are ids[1], ids[2], ...
InputTable(S, ids) ==
    [cols |-> SelectSeq(ItemsDeclared, LAMBDA c : c \in S) \o <<"value">>,
     rows |-> [i \in DOMAIN ids |-> ids[i] @@ ("value" :> 70 + i)],
     index |-> RangeIndex(Len(ids))]

MergeInit ==
    /\ pc = 1
    /\ phase = "idle"
    /\ called = << >>
    /\ written = << >>
    /\ touched = {}
    /\ fetched = NoDatasets
    /\ df = EmptyTable
    \* any subset of the registry's id columns, at most MaxRows rows, equal
    \* rows allowed
    /\ \E S \in SUBSET Range(ItemsDeclared), n \in 0..MaxRows :
          \E ids \in [1..n -> [S -> {1, 2}]] : arg = InputTable(S, ids)
    /\ out = EmptyTable
    /\ mpc = "start"

CallMergeClassifications ==
    /\ mpc = "start"
    /\ \E items \in OrdersFor(Range(arg.cols)) :
          out' = merge_classifications(items, arg)
    /\ mpc' = "returned"
    /\ UNCHANGED <<pc, phase, called, written, touched, fetched, df, arg>>

MergeNext == CallMergeClassifications

SpecMerge == MergeInit /\ [][MergeNext]_vars


(***************************************************************************)
(* Properties.                                                             *)
(***************************************************************************)
\* The row has column c with the value v.
Cell(row, c, v) == c \in DOMAIN row /\ row[c] = v

\* The row has the columns `levels` with the values of the key tuple k.
HasKey(row, levels, k) == \A i \in DOMAIN levels : Cell(row, levels[i], k[i])

\* The positions of the table's rows with the key k.
RowsWithKey(table, levels, k) ==
    {i \in DOMAIN table.rows : HasKey(table.rows[i], levels, k)}

\* The key tuples of a panel.
Keys(panel) == {KeyOf(panel.rows[i], panel.levels) : i \in DOMAIN panel.rows}

\* The panel's row with the key k.
PanelRow(panel, k) ==
    panel.rows[CHOOSE i \in DOMAIN panel.rows : KeyOf(panel.rows[i], panel.levels) = k]

\* The display name the classification table gives the id, Null if it has none.
Lookup(classification, id) ==
    IF \E i \in DOMAIN classification.rows : classification.rows[i].id = id
    THEN classification.rows[CHOOSE i \in DOMAIN classification.rows :
                                classification.rows[i].id = id].name
    ELSE Null

NameColumn ==
    [occupation_id |-> "occupation_name", location_id |-> "location_name",
     product_id |-> "product_name", industry_id |-> "industry_name"]

NameTable ==
    [occupation_id |-> occupation_classification,
     location_id |-> location_classification,
     product_id |-> product_classification,
     industry_id |-> industry_classification]

\* The assembler whose result is about to be saved.
Saving(assembler) ==
    phase = "save" /\ called # << >> /\ called[Len(called)] = assembler

\* The one dataset a product, industry or occupation assembler fetched.
TheRet == fetched[CHOOSE d \in DOMAIN fetched : TRUE]

\* C1: merge_classifications returns as many rows as it was given, row i of
\* the result being row i of the input with, for each registry column the
\* input has, the name column of that entity added: the classification's name
\* of the row's id, or Null when the classification has no entry for it.
C1_MergeKeepsEveryRow ==
    mpc = "returned" =>
        /\ Len(out.rows) = Len(arg.rows)
        /\ \A i \in DOMAIN arg.rows :
              /\ i \in DOMAIN out.rows
              /\ \A c \in Range(arg.cols) : Cell(out.rows[i], c, arg.rows[i][c])
              /\ \A c \in Range(ItemsDeclared) \cap Range(arg.cols) :
                    Cell(out.rows[i], NameColumn[c],
                         Lookup(NameTable[c], arg.rows[i][c]))

\* A two-row table came back with two rows, one of them with a location and a
\* product the classifications do not know, its name columns Null.
C1_Witness ==
    /\ mpc = "returned"
    /\ Len(arg.rows) = 2
    /\ Len(out.rows) = 2
    /\ {"location_id", "product_id"} \subseteq Range(arg.cols)
    /\ \E i \in DOMAIN arg.rows :
          /\ arg.rows[i]["location_id"] = 2
          /\ arg.rows[i]["product_id"] = 1
          /\ Cell(out.rows[i], "location_name", Null)
          /\ Cell(out.rows[i], "product_name", Null)

\* C2: a table with none of the registry's id columns comes back from
\* merge_classifications as it went in: same columns, rows, values and row
\* labels, and no exception.
C2_NoIdColumnsUnchanged ==
    (mpc = "returned" /\ Range(arg.cols) \cap Range(ItemsDeclared) = {}) =>
        out = arg

C2_Witness ==
    /\ mpc = "returned"
    /\ Range(arg.cols) \cap Range(ItemsDeclared) = {}
    /\ Len(arg.rows) = 2
    /\ out = arg

\* C10: whatever order the registry is iterated in, a table with two or more
\* of the id columns gets the same rows (the same value under every column
\* label, row by row) and the same set of columns as in the literal's order.
C10_OrderIndependent ==
    (mpc = "returned" /\ Cardinality(Range(arg.cols) \cap Range(ItemsDeclared)) >= 2) =>
        LET declared == merge_classifications(ItemsDeclared, arg)
        IN  /\ out.rows = declared.rows
            /\ Range(out.cols) = Range(declared.cols)

\* Two iteration orders gave the same rows with the columns in another order.
C10_Witness ==
    /\ mpc = "returned"
    /\ Cardinality(Range(arg.cols) \cap Range(ItemsDeclared)) >= 2
    /\ Len(arg.rows) >= 1
    /\ out.cols # merge_classifications(ItemsDeclared, arg).cols
    /\ out.rows = merge_classifications(ItemsDeclared, arg).rows

\* C3: in the department and MSA product exports, a detail row (l, p, y)
\* whose (p, y) is in the product-year summary and whose (l, y) is in the
\* location-year summary has exactly one output row, which carries the
\* detail's export_value, the pci of (p, y), the eci of (l, y) and the
\* classification names of p and l.
C3_ProductRowAssembled ==
    (Saving("save_products_department") \/ Saving("save_products_msa")) =>
        \A k \in Keys(TheRet[LPY]) :
            (<<k[2], k[3]>> \in Keys(TheRet[PY]) /\ <<k[1], k[3]>> \in Keys(TheRet[LY])) =>
                /\ Cardinality(RowsWithKey(df, LPY, k)) = 1
                /\ \A i \in RowsWithKey(df, LPY, k) :
                      /\ Cell(df.rows[i], "export_value",
                              PanelRow(TheRet[LPY], k)["export_value"])
                      /\ Cell(df.rows[i], "pci",
                              PanelRow(TheRet[PY], <<k[2], k[3]>>)["pci"])
                      /\ Cell(df.rows[i], "eci",
                              PanelRow(TheRet[LY], <<k[1], k[3]>>)["eci"])
                      /\ Cell(df.rows[i], "product_name",
                              Lookup(product_classification, k[2]))
                      /\ Cell(df.rows[i], "location_name",
                              Lookup(location_classification, k[1]))

\* The spec's scenario: one detail row with both summaries and both
\* classification entries present, assembled into one row.
C3_Witness ==
    /\ Saving("save_products_department")
    /\ <<1, 2, 2>> \in Keys(TheRet[LPY])
    /\ <<2, 2>> \in Keys(TheRet[PY])
    /\ <<1, 2>> \in Keys(TheRet[LY])
    /\ <<1, 1>> \in Keys(TheRet[LY])
    /\ \E i \in DOMAIN df.rows :
          /\ HasKey(df.rows[i], LPY, <<1, 2, 2>>)
          /\ Cell(df.rows[i], "product_name", 202)
          /\ Cell(df.rows[i], "location_name", 101)
          /\ Cell(df.rows[i], "pci", 2022)
          /\ Cell(df.rows[i], "eci", 4012)


\* The output has exactly one row for each key of `keys`, none for any other
\* key, and the row of a key carries the detail panel's value of `col`.
ExactlyTheRows(table, detail, keys, col) ==
    /\ Len(table.rows) = Cardinality(keys)
    /\ \A k \in keys :
          /\ Cardinality(RowsWithKey(table, detail.levels, k)) = 1
          /\ \A i \in RowsWithKey(table, detail.levels, k) :
                Cell(table.rows[i], col, PanelRow(detail, k)[col])

\* C4: in the four inner-join product and industry exports a detail row whose
\* (entity, year) is not in the (entity, year) summary has no output row, and
\* the output is otherwise complete: exactly one row, with the detail's value,
\* for every detail row whose summaries exist.
C4_UnmatchedDetailDropped ==
    /\ (Saving("save_products_department") \/ Saving("save_products_msa")) =>
          /\ \A k \in Keys(TheRet[LPY]) :
                <<k[2], k[3]>> \notin Keys(TheRet[PY]) =>
                    RowsWithKey(df, LPY, k) = {}
          /\ ExactlyTheRows(df, TheRet[LPY],
                {k \in Keys(TheRet[LPY]) :
                    /\ <<k[2], k[3]>> \in Keys(TheRet[PY])
                    /\ <<k[1], k[3]>> \in Keys(TheRet[LY])},
                "export_value")
    /\ (Saving("save_industries_department") \/ Saving("save_industries_msa")) =>
          /\ \A k \in Keys(TheRet[LIY]) :
                <<k[2], k[3]>> \notin Keys(TheRet[IY]) =>
                    RowsWithKey(df, LIY, k) = {}
          /\ ExactlyTheRows(df, TheRet[LIY],
                {k \in Keys(TheRet[LIY]) : <<k[2], k[3]>> \in Keys(TheRet[IY])},
                "employment")

\* The fixture of the spec: two detail rows, the summary lacks the
\* (industry, year) of one of them, the output holds the other one alone.
C4_Witness ==
    /\ Saving("save_industries_department")
    /\ Keys(TheRet[LIY]) = {<<1, 1, 1>>, <<1, 2, 2>>}
    /\ Keys(TheRet[IY]) = {<<2, 2>>}
    /\ Len(df.rows) = 1
    /\ HasKey(df.rows[1], LIY, <<1, 2, 2>>)

\* C5: in the demographic export every (location_id, year) of the population
\* panel that neither GDP panel has is an output row with the population
\* value and Null in both GDP columns.
C5_PopulationOnlyKept ==
    Saving("save_demographic") =>
        \A k \in Keys(fetched["population"][LY]) :
            (/\ k \notin Keys(fetched["gdp_real_department"][LY])
             /\ k \notin Keys(fetched["gdp_nominal_department"][LY])) =>
                /\ RowsWithKey(df, LY, k) # {}
                /\ \A i \in RowsWithKey(df, LY, k) :
                      /\ Cell(df.rows[i], "population",
                              PanelRow(fetched["population"][LY], k)["population"])
                      /\ Cell(df.rows[i], "gdp_real", Null)
                      /\ Cell(df.rows[i], "gdp_nominal", Null)

C5_Witness ==
    /\ Saving("save_demographic")
    /\ Keys(fetched["population"][LY]) = {<<1, 1>>, <<2, 2>>}
    /\ Keys(fetched["gdp_real_department"][LY]) = {<<1, 1>>}
    /\ Keys(fetched["gdp_nominal_department"][LY]) = {<<1, 1>>}
    /\ \E i \in DOMAIN df.rows :
          /\ HasKey(df.rows[i], LY, <<2, 2>>)
          /\ Cell(df.rows[i], "population", 12022)
          /\ Cell(df.rows[i], "gdp_real", Null)

\* C6: the demographic export's rows are in strictly ascending order of
\* (location_id, year), so no pair occurs twice, and the row labels are
\* 0..n-1 in that order.
C6_DemographicSorted ==
    Saving("save_demographic") =>
        /\ \A i \in DOMAIN df.rows :
              {"location_id", "year"} \subseteq DOMAIN df.rows[i]
        /\ \A i, j \in DOMAIN df.rows :
              i < j => KeyLess(df.rows[i], df.rows[j], LY)
        /\ df.index = [i \in DOMAIN df.rows |-> i - 1]

\* The GDP panel's only key is above a population-only key: the join yields
\* them out of order unless it sorts, the output has them in order.
C6_Witness ==
    /\ Saving("save_demographic")
    /\ Keys(fetched["gdp_real_department"][LY]) = {<<2, 1>>}
    /\ Keys(fetched["population"][LY]) = {<<1, 2>>, <<2, 1>>}
    /\ Len(df.rows) = 2
    /\ HasKey(df.rows[1], LY, <<1, 2>>)
    /\ HasKey(df.rows[2], LY, <<2, 1>>)
    /\ df.index = <<0, 1>>

\* C9: the demographic export's keys are those of the real-GDP panel and of
\* the population panel; a key only the nominal-GDP panel has gives no row,
\* and the nominal GDP of a key the real-GDP panel lacks is Null in the row
\* the population panel gives it; a key both GDP panels have carries both.
C9_NominalJoinedOntoReal ==
    Saving("save_demographic") =>
        LET real == fetched["gdp_real_department"][LY]
            nominal == fetched["gdp_nominal_department"][LY]
            pop == fetched["population"][LY]
        IN  /\ \A i \in DOMAIN df.rows :
                  \E k \in Keys(real) \cup Keys(pop) : HasKey(df.rows[i], LY, k)
            /\ \A k \in Keys(real) \cup Keys(pop) : RowsWithKey(df, LY, k) # {}
            /\ \A k \in Keys(nominal) \ Keys(real) :
                  \A i \in RowsWithKey(df, LY, k) :
                      Cell(df.rows[i], "gdp_nominal", Null)
            /\ \A k \in Keys(nominal) \cap Keys(real) :
                  \A i \in RowsWithKey(df, LY, k) :
                      /\ Cell(df.rows[i], "gdp_nominal", PanelRow(nominal, k)["gdp_nominal"])
                      /\ Cell(df.rows[i], "gdp_real", PanelRow(real, k)["gdp_real"])

\* The nominal panel has a key the real panel lacks and population has, and
\* one neither has: the first is a row without nominal GDP, the second no row.
C9_Witness ==
    /\ Saving("save_demographic")
    /\ Keys(fetched["gdp_nominal_department"][LY]) = {<<1, 1>>, <<2, 2>>}
    /\ Keys(fetched["gdp_real_department"][LY]) = {<<1, 2>>}
    /\ Keys(fetched["population"][LY]) = {<<1, 1>>}
    /\ Len(df.rows) = 2
    /\ RowsWithKey(df, LY, <<2, 2>>) = {}
    /\ \E i \in DOMAIN df.rows :
          HasKey(df.rows[i], LY, <<1, 1>>) /\ Cell(df.rows[i], "gdp_nominal", Null)


ExpectedAssemblers ==
    <<"save_products_department", "save_products_msa", "save_products_muni",
      "save_industries_department", "save_industries_msa",
      "save_industries_municipality", "save_occupations", "save_demographic">>

ExpectedFiles ==
    <<"products_department.csv", "products_msa.csv", "products_municipality.csv",
      "industries_department.csv", "industries_msa.csv",
      "industries_municipality.csv", "occupations.csv", "demographic.csv">>

\* While export k = pc is under way, exports 1..k-1 have been assembled and
\* written, in the fixed order; the k-th assembler has been called once the
\* call is over or has failed; no later assembler has been called and no later
\* file exists.  After a failure the k-th file may exist in part.
InOrder ==
    LET n == IF phase \in {"save", "aborted"} THEN pc ELSE pc - 1
    IN  /\ pc \in 1..(Len(ExpectedFiles) + 1)
        /\ phase = "done" <=> pc = Len(ExpectedFiles) + 1
        /\ written = SubSeq(ExpectedFiles, 1, pc - 1)
        /\ called = SubSeq(ExpectedAssemblers, 1, n)
        /\ Range(written) \subseteq touched
        /\ touched \subseteq
              Range(written) \cup (IF phase = "aborted" THEN {ExpectedFiles[pc]} ELSE {})

\* C7: downloads() runs the eight exports in the fixed order, each assembler
\* before its own write and each write before the next assembler; a failure
\* of the k-th assembler or write ends the run there, with the files 1..k-1
\* written, no assembler after the k-th called and no file after the k-th
\* created, and nothing happens after it.
C7_SequentialAbortOnFailure ==
    /\ [](phase # "idle" => InOrder)
    /\ [][phase = "aborted" =>
            UNCHANGED <<pc, phase, called, written, touched>>]_vars

\* The third export failed after the first two were written.
C7_Witness ==
    /\ phase = "aborted"
    /\ pc = 3
    /\ written = <<"products_department.csv", "products_msa.csv">>
    /\ called = <<"save_products_department", "save_products_msa", "save_products_muni">>

\* The summary's value of `col` for the row's (entity, year) is in the row.
CarriesIndex(row, summary, col) ==
    \E k \in Keys(summary) :
        /\ HasKey(row, summary.levels, k)
        /\ Cell(row, col, PanelRow(summary, k)[col])

\* C8 as claimed: the output of every product and industry export, the
\* municipality ones included, has the derived index of its entity and year
\* as a column (pci for products, complexity for industries).
C8_EveryGrainCarriesIndex ==
    /\ (Saving("save_products_department") \/ Saving("save_products_msa")
          \/ Saving("save_products_muni")) =>
          "pci" \in Range(df.cols)
    /\ (Saving("save_industries_department") \/ Saving("save_industries_msa")
          \/ Saving("save_industries_municipality")) =>
          "complexity" \in Range(df.cols)

\* C8, amended: at the department and MSA grains every output row of a
\* product (industry) export carries the pci (complexity) of its entity and
\* year; the municipality exports join no summary: their output is the detail
\* table, one row per detail row, without a pci, eci or complexity column.
C8_DepartmentAndMsaCarryIndex ==
    /\ (Saving("save_products_department") \/ Saving("save_products_msa")) =>
          /\ "pci" \in Range(df.cols)
          /\ \A i \in DOMAIN df.rows : CarriesIndex(df.rows[i], TheRet[PY], "pci")
    /\ (Saving("save_industries_department") \/ Saving("save_industries_msa")) =>
          /\ "complexity" \in Range(df.cols)
          /\ \A i \in DOMAIN df.rows :
                CarriesIndex(df.rows[i], TheRet[IY], "complexity")
    /\ Saving("save_products_muni") =>
          /\ Range(df.cols) \cap {"pci", "eci", "complexity"} = {}
          /\ ExactlyTheRows(df, TheRet[LPY], Keys(TheRet[LPY]), "export_value")
    /\ Saving("save_industries_municipality") =>
          /\ Range(df.cols) \cap {"pci", "eci", "complexity"} = {}
          /\ ExactlyTheRows(df, TheRet[LIY], Keys(TheRet[LIY]), "employment")

\* A municipality product export with rows and no pci column.
C8_Witness ==
    /\ Saving("save_products_muni")
    /\ Len(df.rows) = 2
    /\ "pci" \notin Range(df.cols)
    /\ "product_name" \in Range(df.cols)

====
